---- MODULE Spec2Model ----
(***************************************************************************)
(* PoputchikBot (hi9ne/taxi): the creation conversation and the publish   *)
(* flow of handlers/post.py, the notification ledger and dispatch queue   *)
(* it feeds, the post lifecycle, the retry helpers of                     *)
(* utils/retry_utils.py and the session block of database/db.py.          *)
(*                                                                         *)
(* services/matching.py, services/keys_generator.py,                      *)
(* tasks/notifications.py, database/models.py, handlers/my_posts.py and   *)
(* config.py are imported by the sources but are not part of them; what   *)
(* they do is taken from the specification's sections 3 and 4.            *)
(***************************************************************************)
EXTENDS Integers, Sequences, FiniteSets, TLC

\* Number of post ids the sequence hands out: every publish attempt takes one.
MaxPosts == 2

\* retry_on_database_error(func, max_retries=2, delay=1.0, ...)
MAX_RETRIES == 2
DELAY == 1

\* config.POST_LIFETIME_MINUTES (post.py:18, 386), in ticks of the model's
\* clock, and the last instant the clock reaches.
POST_LIFETIME_MINUTES == 2
MaxTime == 3

Users == {1, 2}
PostIds == 1..MaxPosts
Pairs == PostIds \X Users

\* User.role as stored at registration: a driver and a passenger.
RoleOf(u) ==
    IF u = 1 THEN "driver" ELSE "passenger"

\* services.keys_generator.generate_keys (post.py:14, 337-338): the key set
\* of a place text. The place texts of the model and their keys.
GenerateKeys(place) ==
    CASE place = "A" -> {1, 2}
      [] place = "B" -> {2}
      [] place = "C" -> {3}
      [] place = "D" -> {1}
      [] place = "E" -> {4}
      [] place = "F" -> {5}
      [] OTHER -> {}

Route(from, to) ==
    [from |-> from, to |-> to, kf |-> GenerateKeys(from), kt |-> GenerateKeys(to)]

\* Origin and destination of a draft with the key sets generate_keys
\* produced for them.
DriverRoute ==
    Route("A", "C")

\* Against DriverRoute: both endpoints intersect, only the origins do, only
\* the destinations do.
PassengerRoutes ==
    { Route("B", "C"), Route("D", "E"), Route("F", "C") }

\* The FSM data of a chat, one field per key the handlers store; a key that
\* is not in the data holds 0, "" or {}.
NoDraft ==
    [user_id |-> 0, role |-> "none", from_place |-> "", to_place |-> "",
     departure_time |-> "", seats |-> 0, price |-> 0, kf |-> {}, kt |-> {}]

\* What the conversation of user u holds when it reaches confirming on
\* route r: state.update_data(user_id=user.id, role=user.role, ...), the
\* answers of the steps and the keys show_post_confirmation stored.
FullDraft(u, r) ==
    [user_id |-> u, role |-> RoleOf(u), from_place |-> r.from, to_place |-> r.to,
     departure_time |-> "now", seats |-> IF RoleOf(u) = "driver" THEN 1 ELSE 0,
     price |-> 1, kf |-> r.kf, kt |-> r.kt]

DraftsOf(u) ==
    { FullDraft(u, r) :
        r \in IF RoleOf(u) = "driver" THEN {DriverRoute} ELSE PassengerRoutes }

\* A Post row; seats = 0 is a row without a seat count (None).
NoPost ==
    [author |-> 0, role |-> "none", kf |-> {}, kt |-> {},
     status |-> "none", committed |-> FALSE, created |-> 0, expires_at |-> 0,
     seats |-> 0, price |-> 0]

\* Seat count of a row the store already holds.
StoredSeats(role) ==
    IF role = "driver" THEN 1 ELSE 0

\* A publish_post coroutine: where it stands (pc), the user whose callback
\* it handles, the matching posts still to be visited, the user ids
\* find_matching_subscriptions returned, the users get_users_to_notify
\* returned (users_to_notify), and what it has done so far: how often each
\* pass was started, whether each has completed, where an exception left it,
\* and the message id publish_to_channel returned to it (0 for None).
NoRun ==
    [pc |-> "idle", user |-> 0, matches |-> <<>>, cands |-> {}, notified |-> {},
     failedIn |-> "none", nSubs |-> 0, nPosts |-> 0,
     subsDone |-> FALSE, postsDone |-> FALSE, channel_msg_id |-> 0]

Statuses ==
    {"active", "paused", "expired", "deleted"}

VARIABLES
    users,      \* ids of the User rows (the registered users)
    fsm,        \* FSMContext state of each user's chat
    draft,      \* FSMContext data of each user's chat
    posts,      \* Post rows by id (committed or still inside a transaction)
    nextId,     \* next value of the Post id sequence
    subs,       \* Subscription rows
    ledger,     \* NotificationLog rows: number of rows per (post, recipient)
    queue,      \* send_match_notification tasks waiting in the broker
    fwd,        \* enqueues made by post p's own publish, about p, per recipient
    rev,        \* enqueues about post m sent to the author of a later post
    run,        \* the publish_post coroutine that took post id p
    reply,      \* what the handler that last answered a user told them
    now,        \* datetime.utcnow(), in ticks
    proc,       \* main(): where it stands, the expiry worker, the engine
    effects,    \* per post, how often its expiry was announced (channel update)
    call        \* a call of a retry_utils function or a get_session block:
                \* what it is given and what it has done

lifeVars == <<now, proc, effects>>

vars == <<users, fsm, draft, posts, nextId, subs, ledger, queue, fwd, rev, run,
          reply, now, proc, effects, call>>

\* No utility call is being followed.
NoCall ==
    [fn |-> "none"]

\* main() while dp.start_polling runs: the worker was started at bot.py:80.
Polling ==
    [pc |-> "polling", worker |-> "running", db |-> "open"]

----------------------------------------------------------------------------
\* Helpers

Intersects(a, b) ==
    a \cap b # {}

Visible(p) ==
    posts[p].committed

RECURSIVE SortedSeq(_)
SortedSeq(S) ==
    IF S = {} THEN <<>>
    ELSE LET m == CHOOSE x \in S : \A y \in S : x <= y
         IN  <<m>> \o SortedSeq(S \ {m})

\* Total number of dispatches ever enqueued for a (post, recipient) pair.
Sent(pr) ==
    fwd[pr] + rev[pr]

\* Number of deliveries of a pair the Celery worker has processed.
Processed(pr) ==
    Sent(pr) - queue[pr]

Enqueue(q, S) ==
    [pr \in Pairs |-> IF pr \in S THEN q[pr] + 1 ELSE q[pr]]

----------------------------------------------------------------------------
\* services/matching.py (from the specification, section 4.2)

FindMatchingSubscriptionsEitherEndpoint(p) ==
    { s.user : s \in { s \in subs :
        /\ s.user # posts[p].author
        /\ \/ Intersects(s.kf, posts[p].kf)
           \/ Intersects(s.kt, posts[p].kt) } }

FindMatchingSubscriptions(p) ==
    { s.user : s \in { s \in subs :
        /\ s.user # posts[p].author
        /\ Intersects(s.kf, posts[p].kf)
        /\ Intersects(s.kt, posts[p].kt) } }

GetUsersToNotify(p, cands) ==
    { u \in cands : ledger[<<p, u>>] = 0 }

FindMatchingPostsAnyStatus(p) ==
    { m \in PostIds :
        /\ m # p
        /\ Visible(m)
        /\ posts[m].role # posts[p].role
        /\ posts[m].author # posts[p].author
        /\ Intersects(posts[m].kf, posts[p].kf)
        /\ Intersects(posts[m].kt, posts[p].kt) }

FindMatchingPosts(p) ==
    { m \in PostIds :
        /\ m # p
        /\ Visible(m)
        /\ posts[m].status = "active"
        /\ posts[m].role # posts[p].role
        /\ posts[m].author # posts[p].author
        /\ Intersects(posts[m].kf, posts[p].kf)
        /\ Intersects(posts[m].kt, posts[p].kt) }

\* NotificationLedger (section 4.3): an insert the uniqueness constraint on
\* (post_id, recipient_id) rejects is treated as "already notified".
RecordNotifiedNoConstraint(l, pr) ==
    [l EXCEPT ![pr] = @ + 1]

RecordNotified(l, pr) ==
    IF l[pr] = 0 THEN [l EXCEPT ![pr] = 1] ELSE l

----------------------------------------------------------------------------
\* database/db.py get_session: session.rollback() in the except branch undoes
\* what the session has not committed and nothing else.

RollbackDropsCommitted(ps, p) ==
    [ps EXCEPT ![p] = NoPost]

RollbackKeepsRow(ps, p) ==
    ps

Rollback(ps, p) ==
    IF ps[p].committed THEN ps ELSE [ps EXCEPT ![p] = NoPost]

----------------------------------------------------------------------------
\* Every user is registered and has brought the creation conversation to
\* CreatePost.confirming, the state in which the router dispatches the
\* confirmation callbacks (post.py:377, 559); no post exists yet.
Init ==
    /\ users = Users
    /\ fsm = [u \in Users |-> "confirming"]
    /\ draft \in { d \in [Users -> UNION { DraftsOf(u) : u \in Users }] :
                    \A u \in Users : d[u] \in DraftsOf(u) }
    /\ posts = [p \in PostIds |-> NoPost]
    /\ nextId = 1
    /\ subs = {}
    /\ ledger = [pr \in Pairs |-> 0]
    /\ queue = [pr \in Pairs |-> 0]
    /\ fwd = [pr \in Pairs |-> 0]
    /\ rev = [pr \in Pairs |-> 0]
    /\ run = [p \in PostIds |-> NoRun]
    /\ reply = [u \in Users |-> "none"]
    /\ now = 0
    /\ proc = Polling
    /\ effects = [p \in PostIds |-> 0]
    /\ call = NoCall

----------------------------------------------------------------------------
\* publish_post, handlers/post.py:377-556

\* Line 386: expires_at = datetime.utcnow() + timedelta(minutes=POST_LIFETIME_MINUTES)
ExpiresAtNoLifetime(t) ==
    t

ExpiresAt(t) ==
    t + POST_LIFETIME_MINUTES

\* Lines 377-414: the callback passes the CreatePost.confirming filter, the
\* row is added and flushed (taking an id), the author is read, the post is
\* published to the channel and session.commit() makes the row visible.
\* Until the commit no other session sees the row, so the steps are one
\* action: it ends with the row committed, or with an exception before the
\* commit and the row rolled back.  publish_to_channel (line 410) is awaited
\* before session.commit() (line 414): it returns a message id (here the
\* post's id) or None (0), and an exception raised after it, by the commit,
\* leaves the message in the channel.
PublishStart(u) ==
    /\ proc.pc = "polling"
    /\ fsm[u] = "confirming"
    /\ nextId <= MaxPosts
    /\ \E out \in {"raise", "ok"}, msg \in {0, nextId} :
        LET row == [author |-> draft[u].user_id, role |-> draft[u].role,
                    kf |-> draft[u].kf, kt |-> draft[u].kt,
                    status |-> "active", committed |-> (out = "ok"),
                    created |-> now, expires_at |-> ExpiresAt(now),
                    seats |-> draft[u].seats, price |-> draft[u].price]
        IN  /\ posts' = IF out = "ok"
                        THEN [posts EXCEPT ![nextId] = row]
                        ELSE Rollback([posts EXCEPT ![nextId] = row], nextId)
            /\ run' = [run EXCEPT ![nextId] =
                         IF row.committed
                         THEN [NoRun EXCEPT !.pc = "subs", !.user = u,
                                            !.channel_msg_id = msg]
                         ELSE [NoRun EXCEPT !.pc = "failed", !.user = u,
                                            !.failedIn = "precommit",
                                            !.channel_msg_id = msg]]
    /\ nextId' = nextId + 1
    /\ UNCHANGED <<users, fsm, draft, subs, ledger, queue, fwd, rev, reply>>
    /\ UNCHANGED lifeVars
    /\ UNCHANGED call

\* Lines 416-421: await find_matching_subscriptions, then await
\* get_users_to_notify, which reads the ledger: users_to_notify is what the
\* store held when the queries ran.
SubsFind(p) ==
    /\ run[p].pc = "subs"
    /\ run' = [run EXCEPT ![p].nSubs = @ + 1,
                          ![p].cands = FindMatchingSubscriptions(p),
                          ![p].notified = GetUsersToNotify(p, FindMatchingSubscriptions(p)),
                          ![p].pc = "notify"]
    /\ UNCHANGED <<users, fsm, draft, posts, nextId, subs, ledger, queue, fwd, rev, reply>>
    /\ UNCHANGED lifeVars
    /\ UNCHANGED call

\* Lines 423-452: one .delay() per user of users_to_notify; .delay() is a
\* synchronous call, so the loop runs without yielding to the event loop.
SubsNotify(p) ==
    /\ run[p].pc = "notify"
    /\ LET S == { <<p, u>> : u \in run[p].notified }
       IN  /\ queue' = Enqueue(queue, S)
           /\ fwd' = Enqueue(fwd, S)
    /\ run' = [run EXCEPT ![p].subsDone = TRUE,
                          ![p].pc = "posts"]
    /\ UNCHANGED <<users, fsm, draft, posts, nextId, subs, ledger, rev, reply>>
    /\ UNCHANGED lifeVars
    /\ UNCHANGED call

\* Lines 466-531: one iteration of the loop over matching_posts: the
\* matching author's user record is looked up and the ledger is read for
\* (new post, matching author); unless the record is missing or an entry is
\* found, the
\* matching author is enqueued about the new post and the publishing author
\* about the matching post. Gives <<queue, fwd, rev>> after the iteration.
IterEffect(p, m, q, f, r) ==
    LET a == posts[m].author
    IN  IF a \notin users \/ ledger[<<p, a>>] > 0
        THEN <<q, f, r>>
        ELSE <<Enqueue(Enqueue(q, {<<p, a>>}), {<<m, run[p].user>>}),
               Enqueue(f, {<<p, a>>}),
               Enqueue(r, {<<m, run[p].user>>})>>

\* Lines 454-463: find_matching_posts and the lookup of their authors.
PostsFindEarly(p) ==
    run[p].pc \in {"subs", "notify", "posts"}

PostsFindGuard(p) ==
    run[p].pc = "posts"

PostsFind(p) ==
    /\ PostsFindGuard(p)
    /\ LET ms == SortedSeq(FindMatchingPosts(p))
       IN  run' = [run EXCEPT ![p].matches = ms,
                              ![p].nPosts = @ + 1,
                              ![p].postsDone = (ms = <<>>),
                              ![p].pc = "iter"]
    /\ UNCHANGED <<users, fsm, draft, posts, nextId, subs, ledger, queue, fwd, rev, reply>>
    /\ UNCHANGED lifeVars
    /\ UNCHANGED call

PostsIter(p) ==
    /\ run[p].pc = "iter"
    /\ run[p].matches # <<>>
    /\ LET e == IterEffect(p, Head(run[p].matches), queue, fwd, rev)
       IN  /\ queue' = e[1]
           /\ fwd' = e[2]
           /\ rev' = e[3]
    /\ run' = [run EXCEPT ![p].matches = Tail(@),
                          ![p].postsDone = (Tail(run[p].matches) = <<>>)]
    /\ UNCHANGED <<users, fsm, draft, posts, nextId, subs, ledger, reply>>
    /\ UNCHANGED lifeVars
    /\ UNCHANGED call

\* Lines 535-556: the user is read, the session block ends (commit), the
\* chat is cleaned, state.clear() empties state and data, and the main menu
\* is sent: the publish has reported success.
PublishFinish(p) ==
    /\ run[p].pc = "iter"
    /\ run[p].matches = <<>>
    /\ fsm' = [fsm EXCEPT ![run[p].user] = "none"]
    /\ draft' = [draft EXCEPT ![run[p].user] = NoDraft]
    /\ run' = [run EXCEPT ![p].pc = "done"]
    /\ UNCHANGED <<users, posts, nextId, subs, ledger, queue, fwd, rev, reply>>
    /\ UNCHANGED lifeVars
    /\ UNCHANGED call

\* An await inside the session block raises after the commit. publish_post
\* has no handler of its own: get_session (db.py:39-53) rolls the session
\* back and an exception leaves the block and publish_post; lines 542-556
\* are not executed, so the conversation stays in CreatePost.confirming.
\*   pc = "subs":   find_matching_subscriptions or get_users_to_notify raises
\*   pc = "notify": a .delay() raises after some, or none, have gone out
\*   pc = "posts": find_matching_posts or the authors' lookup raises
\*   pc = "iter":  the ledger read or the first .delay() of the iteration
\*                 raises, or the second does after the first went out;
\*                 after the loop, the user lookup or the block's commit
PublishRaise(p) ==
    /\ run[p].pc \in {"subs", "notify", "posts", "iter"}
    /\ posts' = Rollback(posts, p)
    /\ run' = [run EXCEPT ![p].pc = "failed",
                          ![p].matches = <<>>,
                          ![p].nSubs = IF run[p].pc = "subs" THEN @ + 1 ELSE @,
                          ![p].nPosts = IF run[p].pc = "posts" THEN @ + 1 ELSE @,
                          ![p].failedIn =
                              IF run[p].pc = "iter" /\ run[p].matches = <<>>
                              THEN "finish" ELSE "matching"]
    /\ CASE run[p].pc = "notify" ->
              \E U \in SUBSET run[p].notified :
                  /\ \/ U # run[p].notified
                     \/ U = {}
                  /\ queue' = Enqueue(queue, { <<p, u>> : u \in U })
                  /\ fwd' = Enqueue(fwd, { <<p, u>> : u \in U })
                  /\ rev' = rev
         [] run[p].pc = "iter" /\ run[p].matches # <<>> ->
              \E first \in BOOLEAN :
                  LET a == posts[Head(run[p].matches)].author
                  IN  IF first /\ ledger[<<p, a>>] = 0
                      THEN /\ queue' = Enqueue(queue, {<<p, a>>})
                           /\ fwd' = Enqueue(fwd, {<<p, a>>})
                           /\ rev' = rev
                      ELSE UNCHANGED <<queue, fwd, rev>>
         [] OTHER -> UNCHANGED <<queue, fwd, rev>>
    /\ UNCHANGED <<users, fsm, draft, nextId, subs, ledger, reply>>
    /\ UNCHANGED lifeVars
    /\ UNCHANGED call

----------------------------------------------------------------------------
\* The Subscription table (section 3: unique per owner, origin keys and
\* destination keys). A row is [user, kf, kt, n], n numbering the rows that
\* share one key. SameKey: the stored rows the constraint compares a new row
\* with.
SameKey(S, user, kf, kt) ==
    { s \in S : s.user = user /\ s.kf = kf /\ s.kt = kt }

\* The commit of a new row: whether the store rejects it.
UniqueViolation(S, user, kf, kt) ==
    SameKey(S, user, kf, kt) # {}

InsertSubscription(S, user, kf, kt) ==
    S \cup {[user |-> user, kf |-> kf, kt |-> kt,
             n |-> Cardinality(SameKey(S, user, kf, kt)) + 1]}

\* subscribe_to_route, handlers/post.py:559-581: the subscription is added
\* and committed and the creation is announced (lines 577-579); whatever the
\* commit raises, a rejection by the store or any other failure, is caught
\* by the bare except and answered "already exists" (lines 580-581), with
\* nothing stored.
SubscribeToRoute(u) ==
    /\ proc.pc = "polling"
    /\ fsm[u] = "confirming"
    /\ \E commit \in {"ok", "fails"} :
        IF commit = "ok" /\ ~UniqueViolation(subs, draft[u].user_id, draft[u].kf, draft[u].kt)
        THEN /\ subs' = InsertSubscription(subs, draft[u].user_id, draft[u].kf, draft[u].kt)
             /\ reply' = [reply EXCEPT ![u] = "subscribed"]
        ELSE /\ subs' = subs
             /\ reply' = [reply EXCEPT ![u] = "already_exists"]
    /\ UNCHANGED <<users, fsm, draft, posts, nextId, ledger, queue, fwd, rev, run>>
    /\ UNCHANGED lifeVars
    /\ UNCHANGED call

\* tasks/notifications.py send_match_notification, run by a Celery worker:
\* it delivers the message and records the (post, recipient) pair.
SendMatchNotification(pr) ==
    /\ queue[pr] > 0
    /\ queue' = [queue EXCEPT ![pr] = @ - 1]
    /\ ledger' = RecordNotified(ledger, pr)
    /\ UNCHANGED <<users, fsm, draft, posts, nextId, subs, fwd, rev, run, reply>>
    /\ UNCHANGED lifeVars
    /\ UNCHANGED call

\* handlers/my_posts.py: the owner toggles a post between active and paused.
PausePost(p) ==
    /\ proc.pc = "polling"
    /\ Visible(p)
    /\ posts[p].status = "active"
    /\ posts' = [posts EXCEPT ![p].status = "paused"]
    /\ UNCHANGED <<users, fsm, draft, nextId, subs, ledger, queue, fwd, rev, run, reply>>
    /\ UNCHANGED lifeVars
    /\ UNCHANGED call

ResumableWithExpired ==
    {"paused", "expired"}

ResumableStatuses ==
    {"paused"}

ResumePost(p) ==
    /\ proc.pc = "polling"
    /\ Visible(p)
    /\ posts[p].status \in ResumableStatuses
    /\ posts' = [posts EXCEPT ![p].status = "active"]
    /\ UNCHANGED <<users, fsm, draft, nextId, subs, ledger, queue, fwd, rev, run, reply>>
    /\ UNCHANGED lifeVars
    /\ UNCHANGED call

Next ==
    \/ \E u \in Users : PublishStart(u)
    \/ \E p \in PostIds : SubsFind(p)
    \/ \E p \in PostIds : SubsNotify(p)
    \/ \E p \in PostIds : PostsFind(p)
    \/ \E p \in PostIds : PostsIter(p)
    \/ \E p \in PostIds : PublishFinish(p)
    \/ \E p \in PostIds : PublishRaise(p)
    \/ \E u \in Users : SubscribeToRoute(u)
    \/ \E pr \in Pairs : SendMatchNotification(pr)

Spec == Init /\ [][Next]_vars

----------------------------------------------------------------------------
\* utils/retry_utils.py:10-100, retry_on_database_error and
\* retry_on_network_error. outs[k + 1] is how attempt k of func ends:
\*   "ok"       it returns
\*   "timeout"  an exception whose text names a timeout (lines 42-43)
\*   "athrow"   the RuntimeError "generator didn't stop after athrow" (line 44)
\*   "network"  a TelegramNetworkError (line 87)
\*   "other"    any other exception
Outcomes ==
    {"ok", "timeout", "athrow", "network", "other"}

\* The failures each function retries: lines 42-44 and line 87.
RetriedAnyFailure(kind, out) ==
    out # "ok"

Retried(kind, out) ==
    \/ kind = "db" /\ out \in {"timeout", "athrow"}
    \/ kind = "net" /\ out = "network"

\* Lines 48 and 91: asyncio.sleep(delay * (2 ** attempt))
BackoffConstant(delay, attempt) ==
    delay

Backoff(delay, attempt) ==
    delay * (2 ^ attempt)

\* Lines 34 and 84: for attempt in range(max_retries + 1)
RangeOneLonger(attempt, max_retries) ==
    attempt < max_retries + 2

InRange(attempt, max_retries) ==
    attempt < max_retries + 1

\* The loop from attempt on, waits being the sleeps made so far. Gives
\* whether the call raises, the attempt whose exception it raises (exc),
\* the attempt whose value it returns (value), how often func was called
\* and the sleeps in order; exc and value are -1 when there is none.
RECURSIVE RetryAttempt(_, _, _)
RetryAttempt(c, attempt, waits) ==
    IF ~InRange(attempt, c.max_retries)
    THEN \* lines 56-57 and 99-100: raise last_exception, if there is one
         [raised |-> attempt > 0, exc |-> attempt - 1, value |-> -1,
          calls |-> attempt, waits |-> waits]
    ELSE IF c.outs[attempt + 1] = "ok"
         THEN [raised |-> FALSE, exc |-> -1, value |-> attempt,
               calls |-> attempt + 1, waits |-> waits]
         ELSE IF Retried(c.kind, c.outs[attempt + 1])
              THEN RetryAttempt(c, attempt + 1,
                                IF attempt < c.max_retries
                                THEN Append(waits, Backoff(c.delay, attempt))
                                ELSE waits)
              ELSE \* lines 54 and 97: raise
                   [raised |-> TRUE, exc |-> attempt, value |-> -1,
                    calls |-> attempt + 1, waits |-> waits]

RetryOnDatabaseError(outs, max_retries, delay) ==
    RetryAttempt([kind |-> "db", outs |-> outs, max_retries |-> max_retries,
                  delay |-> delay], 0, <<>>)

RetryOnNetworkError(outs, max_retries, delay) ==
    RetryAttempt([kind |-> "net", outs |-> outs, max_retries |-> max_retries,
                  delay |-> delay], 0, <<>>)

\* The attempts of a call made with the default max_retries and delay, all
\* ending as out.
DefaultRetry(out) ==
    RetryOnDatabaseError([k \in 1..(MAX_RETRIES + 2) |-> out], MAX_RETRIES, DELAY)

\* How one attempt of _check_active_post ends inside retry_on_database_error.
\* post.py:60 passes the function alone, so retry_utils.py:36 calls it as
\* func() although it is declared _check_active_post(session) (post.py:40):
\* the call raises TypeError, whose text names no timeout.
CheckActivePostAttempt ==
    "other"

\* post.py:49-55: the query for a post of the user with status "active".
HasActivePost(u) ==
    \E p \in PostIds :
        /\ Visible(p)
        /\ posts[p].author = u
        /\ posts[p].status = "active"

\* start_create_post, handlers/post.py:37-114. The callback "create_post"
\* carries no state filter: it is handled in every conversation state.
StartCreatePostClearsFirst(u) ==
    /\ proc.pc = "polling"
    /\ reply' = [reply EXCEPT ![u] = "db_error"]
    /\ fsm' = [fsm EXCEPT ![u] = "none"]
    /\ draft' = [draft EXCEPT ![u] = NoDraft]
    /\ UNCHANGED <<users, posts, nextId, subs, ledger, queue, fwd, rev, run>>
    /\ UNCHANGED lifeVars
    /\ UNCHANGED call

StartCreatePost(u) ==
    /\ proc.pc = "polling"
    /\ LET res == DefaultRetry(CheckActivePostAttempt)
       IN  IF res.raised
           THEN \* lines 61-64
                /\ reply' = [reply EXCEPT ![u] = "db_error"]
                /\ UNCHANGED <<fsm, draft>>
           ELSE IF u \notin users
           THEN \* lines 66-70
                /\ reply' = [reply EXCEPT ![u] = "not_registered"]
                /\ UNCHANGED <<fsm, draft>>
           ELSE IF HasActivePost(u)
           THEN \* lines 72-90
                /\ reply' = [reply EXCEPT ![u] = "already_active"]
                /\ UNCHANGED <<fsm, draft>>
           ELSE \* lines 92-114: update_data adds to the stored data
                /\ reply' = [reply EXCEPT ![u] = "ask_from"]
                /\ draft' = [draft EXCEPT ![u].user_id = u, ![u].role = RoleOf(u)]
                /\ fsm' = [fsm EXCEPT ![u] = "entering_from"]
    /\ UNCHANGED <<users, posts, nextId, subs, ledger, queue, fwd, rev, run>>
    /\ UNCHANGED lifeVars
    /\ UNCHANGED call

\* The store as start_create_post may find it: any set of registered users,
\* posts of registered users in any status, and each chat either idle or at
\* the confirmation step of an earlier conversation.
InitStart ==
    /\ users \in SUBSET Users
    /\ posts \in { ps \in [PostIds -> { NoPost } \cup
                        { [author |-> u, role |-> RoleOf(u), kf |-> d.kf, kt |-> d.kt,
                           status |-> st, committed |-> TRUE,
                           created |-> 0, expires_at |-> ExpiresAt(0),
                           seats |-> StoredSeats(RoleOf(u)), price |-> 1] :
                             u \in Users, d \in { DriverRoute }, st \in Statuses }] :
                    \A p \in PostIds : ps[p] = NoPost \/ ps[p].author \in users }
    /\ fsm \in [Users -> {"none", "confirming"}]
    /\ draft = [u \in Users |->
                  IF fsm[u] = "confirming"
                  THEN FullDraft(u, DriverRoute)
                  ELSE NoDraft]
    /\ \A u \in Users : fsm[u] = "confirming" => u \in users
    /\ nextId = MaxPosts + 1
    /\ subs = {}
    /\ ledger = [pr \in Pairs |-> 0]
    /\ queue = [pr \in Pairs |-> 0]
    /\ fwd = [pr \in Pairs |-> 0]
    /\ rev = [pr \in Pairs |-> 0]
    /\ run = [p \in PostIds |-> NoRun]
    /\ reply = [u \in Users |-> "none"]
    /\ now = 0
    /\ proc = Polling
    /\ effects = [p \in PostIds |-> 0]
    /\ call = NoCall

NextStart ==
    \/ \E u \in Users : StartCreatePost(u)
    \/ \E p \in PostIds : PausePost(p)
    \/ \E p \in PostIds : ResumePost(p)

SpecStart == InitStart /\ [][NextStart]_vars

----------------------------------------------------------------------------
\* Post lifecycle (specification, section 4.4) and the process that owns the
\* expiry worker (bot.py main).

\* handlers/my_posts.py: the owner withdraws a post.
WithdrawPost(p) ==
    /\ proc.pc = "polling"
    /\ Visible(p)
    /\ posts[p].status \in {"active", "paused"}
    /\ posts' = [posts EXCEPT ![p].status = "deleted"]
    /\ UNCHANGED <<users, fsm, draft, nextId, subs, ledger, queue, fwd, rev, run, reply>>
    /\ UNCHANGED lifeVars
    /\ UNCHANGED call

\* How one attempt of _get_post_info ends inside retry_on_database_error:
\* start.py:193 passes the function alone, as post.py:60 does, so
\* retry_utils.py:36 calls _get_post_info(session) without its argument.
GetPostInfoAttempt ==
    "other"

\* cmd_start with the parameter post_<p> (start.py:25-68) for a registered
\* user, and show_post_from_channel (start.py:166-275) which it calls: the
\* conversation state is cleared, then the post is shown. The keyboard with
\* the pause / resume actions is built only at start.py:246-247.
ShowPostFromChannel(u, p) ==
    /\ proc.pc = "polling"
    /\ u \in users
    /\ fsm' = [fsm EXCEPT ![u] = "none"]
    /\ draft' = [draft EXCEPT ![u] = NoDraft]
    /\ LET res == DefaultRetry(GetPostInfoAttempt)
       IN  reply' = [reply EXCEPT ![u] =
              IF res.raised THEN "load_error"
              ELSE IF ~Visible(p) THEN "post_not_found"
              ELSE IF posts[p].author # u
                   THEN IF posts[p].status = "active" THEN "contact" ELSE "back_to_menu"
                   ELSE IF posts[p].status \in {"active", "paused"}
                        THEN "post_actions" ELSE "back_to_menu"]
    /\ UNCHANGED <<users, posts, nextId, subs, ledger, queue, fwd, rev, run>>
    /\ UNCHANGED lifeVars
    /\ UNCHANGED call

\* The clock, as long as the process lives to read it.
AdvanceClock ==
    /\ now < MaxTime
    /\ proc.pc \notin {"returned", "raised"}
    /\ now' = now + 1
    /\ UNCHANGED <<users, fsm, draft, posts, nextId, subs, ledger, queue, fwd, rev, run, reply, call,
                   proc, effects>>

\* workers/expiration.py, from section 4.4: the statuses a tick selects, and
\* the posts a tick at the present instant selects.
ExpirableWithExpired ==
    {"active", "paused", "expired"}

ExpirableActiveOnly ==
    {"active"}

ExpirableStatuses ==
    {"active", "paused"}

Overdue(p) ==
    /\ Visible(p)
    /\ posts[p].status \in ExpirableStatuses
    /\ posts[p].expires_at <= now

\* The worker after a tick whose storage interaction failed.
WorkerDiesOnFailure(w) ==
    "dead"

AfterFailedTick(w) ==
    w

WorkerAlive ==
    /\ proc.worker = "running"
    /\ proc.pc \in {"get_me", "polling"}

\* One tick that commits: every selected post becomes expired in one
\* transaction, and the channel is told about each of them.
TickOk ==
    /\ WorkerAlive
    /\ posts' = [p \in PostIds |->
                   IF Overdue(p) THEN [posts[p] EXCEPT !.status = "expired"] ELSE posts[p]]
    /\ effects' = [p \in PostIds |-> IF Overdue(p) THEN effects[p] + 1 ELSE effects[p]]
    /\ UNCHANGED <<users, fsm, draft, nextId, subs, ledger, queue, fwd, rev, run, reply, call,
                   now, proc>>

\* One tick whose storage interaction fails, or that crashes between
\* selecting and committing: the transaction is rolled back.
TickFail ==
    /\ WorkerAlive
    /\ proc' = [proc EXCEPT !.worker = AfterFailedTick(@)]
    /\ UNCHANGED <<users, fsm, draft, posts, nextId, subs, ledger, queue, fwd, rev, run, reply, call,
                   now, effects>>

\* bot.py:39-81: init_db, the bot and the dispatcher are built and
\* start_expiration_worker(bot) is called; lines 83-90: delete_webhook, whose
\* failure is logged and ignored. An exception of init_db leaves main before
\* the worker is started.
MainStart ==
    /\ proc.pc = "init"
    /\ \E out \in {"ok", "raise"} :
        proc' = IF out = "ok"
                THEN [pc |-> "get_me", worker |-> "running", db |-> "open"]
                ELSE [proc EXCEPT !.pc = "raised"]
    /\ UNCHANGED <<users, fsm, draft, posts, nextId, subs, ledger, queue, fwd, rev, run, reply, call,
                   now, effects>>

\* bot.py:92-99: bot.get_me(); on an exception main logs it and returns at
\* line 99, which is outside the try / finally of lines 101-128.
MainGetMe ==
    /\ proc.pc = "get_me"
    /\ \E out \in {"ok", "raise"} :
        proc' = [proc EXCEPT !.pc = IF out = "ok" THEN "polling" ELSE "returned"]
    /\ UNCHANGED <<users, fsm, draft, posts, nextId, subs, ledger, queue, fwd, rev, run, reply, call,
                   now, effects>>

\* bot.py:101-128: dp.start_polling returns or raises (the exception is
\* logged and raised again); the finally block calls stop_expiration_worker()
\* and close_db().
MainStop ==
    /\ proc.pc = "polling"
    /\ \E out \in {"returned", "raised"} :
        proc' = [pc |-> out, worker |-> "stopped", db |-> "closed"]
    /\ UNCHANGED <<users, fsm, draft, posts, nextId, subs, ledger, queue, fwd, rev, run, reply, call,
                   now, effects>>

\* The process from its start: MemoryStorage is empty, so no chat is in a
\* conversation, and the store holds the posts (of the driver) that earlier
\* runs of the process left active or paused, created at the present instant
\* or one instant before it.
InitLife ==
    /\ users = Users
    /\ fsm = [u \in Users |-> "none"]
    /\ draft = [u \in Users |-> NoDraft]
    /\ now = 1
    /\ posts \in [PostIds -> { NoPost } \cup
                    { [author |-> u, role |-> RoleOf(u),
                       kf |-> DriverRoute.kf, kt |-> DriverRoute.kt,
                       status |-> st, committed |-> TRUE,
                       created |-> c, expires_at |-> ExpiresAt(c),
                       seats |-> StoredSeats(RoleOf(u)), price |-> 1] :
                         u \in { v \in Users : RoleOf(v) = "driver" },
                         st \in {"active", "paused"}, c \in {0, 1} }]
    /\ nextId = MaxPosts + 1
    /\ subs = {}
    /\ ledger = [pr \in Pairs |-> 0]
    /\ queue = [pr \in Pairs |-> 0]
    /\ fwd = [pr \in Pairs |-> 0]
    /\ rev = [pr \in Pairs |-> 0]
    /\ run = [p \in PostIds |-> NoRun]
    /\ reply = [u \in Users |-> "none"]
    /\ proc = [pc |-> "init", worker |-> "none", db |-> "none"]
    /\ effects = [p \in PostIds |-> 0]
    /\ call = NoCall

NextLife ==
    \/ MainStart
    \/ MainGetMe
    \/ MainStop
    \/ AdvanceClock
    \/ TickOk
    \/ TickFail
    \/ \E p \in PostIds : PausePost(p)
    \/ \E p \in PostIds : ResumePost(p)
    \/ \E p \in PostIds : WithdrawPost(p)
    \/ \E u \in Users, p \in PostIds : ShowPostFromChannel(u, p)

SpecLife == InitLife /\ [][NextLife]_vars

\* The timer of the worker is recurring and a storage failure is transient:
\* while the worker is alive, a tick that commits eventually runs.
SpecLifeFair == SpecLife /\ WF_vars(TickOk)

\* Publishing while time passes: polling runs, the driver's chat is at the
\* confirmation step and confirms (more than once), the owner pauses and
\* resumes. Every post is the driver's, so no post matches another and the
\* loop over matching posts has no iteration.
InitExpiry ==
    /\ users = Users
    /\ fsm = [u \in Users |-> IF RoleOf(u) = "driver" THEN "confirming" ELSE "none"]
    /\ draft = [u \in Users |->
                  IF RoleOf(u) = "driver"
                  THEN FullDraft(u, DriverRoute)
                  ELSE NoDraft]
    /\ posts = [p \in PostIds |-> NoPost]
    /\ nextId = 1
    /\ subs = {}
    /\ ledger = [pr \in Pairs |-> 0]
    /\ queue = [pr \in Pairs |-> 0]
    /\ fwd = [pr \in Pairs |-> 0]
    /\ rev = [pr \in Pairs |-> 0]
    /\ run = [p \in PostIds |-> NoRun]
    /\ reply = [u \in Users |-> "none"]
    /\ now = 0
    /\ proc = Polling
    /\ effects = [p \in PostIds |-> 0]
    /\ call = NoCall

NextExpiry ==
    \/ AdvanceClock
    \/ \E u \in Users : PublishStart(u)
    \/ \E p \in PostIds : SubsFind(p)
    \/ \E p \in PostIds : SubsNotify(p)
    \/ \E p \in PostIds : PostsFind(p)
    \/ \E p \in PostIds : PublishFinish(p)
    \/ \E p \in PostIds : PublishRaise(p)
    \/ \E p \in PostIds : PausePost(p)
    \/ \E p \in PostIds : ResumePost(p)

SpecExpiry == InitExpiry /\ [][NextExpiry]_vars

----------------------------------------------------------------------------
\* Matching over a store of any content: the driver's post 1 has just been
\* committed by publish_post, which is about to run its passes. The store
\* holds up to MaxSubs subscriptions of either user and, under the other
\* ids, posts of either user, of either role and in any status, on routes
\* that meet the new post's on both endpoints, on the origin only or on the
\* destination only; the passenger may already be in the ledger for post 1
\* (enqueued about it by a publish that ran meanwhile).
MaxSubs == 2

SubscriptionChoices ==
    { [user |-> u, kf |-> r.kf, kt |-> r.kt, n |-> 1] : u \in Users, r \in PassengerRoutes }

StoredPostChoices ==
    { [author |-> u, role |-> ro, kf |-> r.kf, kt |-> r.kt,
       status |-> st, committed |-> TRUE, created |-> 0, expires_at |-> ExpiresAt(0),
       seats |-> StoredSeats(ro), price |-> 1] :
          u \in Users, ro \in {"driver", "passenger"}, r \in PassengerRoutes, st \in Statuses }

InitMatch ==
    /\ users = Users
    /\ fsm = [u \in Users |-> IF u = 1 THEN "confirming" ELSE "none"]
    /\ draft = [u \in Users |->
                  IF u = 1
                  THEN FullDraft(u, DriverRoute)
                  ELSE NoDraft]
    /\ posts \in { ps \in [PostIds -> { NoPost } \cup StoredPostChoices \cup
                        { [author |-> 1, role |-> RoleOf(1),
                           kf |-> DriverRoute.kf, kt |-> DriverRoute.kt,
                           status |-> "active", committed |-> TRUE,
                           created |-> 0, expires_at |-> ExpiresAt(0),
                           seats |-> StoredSeats(RoleOf(1)), price |-> 1] }] :
                    /\ ps[1].author = 1 /\ ps[1].kf = DriverRoute.kf /\ ps[1].role = RoleOf(1)
                    /\ \A p \in PostIds \ {1} : ps[p] \in { NoPost } \cup StoredPostChoices }
    /\ nextId = MaxPosts + 1
    /\ subs \in { S \in SUBSET SubscriptionChoices : Cardinality(S) <= MaxSubs }
    /\ ledger \in { l \in [Pairs -> {0, 1}] : \A pr \in Pairs : pr # <<1, 2>> => l[pr] = 0 }
    /\ queue = [pr \in Pairs |-> 0]
    /\ fwd = [pr \in Pairs |-> 0]
    /\ rev = ledger
    /\ run = [p \in PostIds |-> IF p = 1 THEN [NoRun EXCEPT !.pc = "subs", !.user = 1] ELSE NoRun]
    /\ reply = [u \in Users |-> "none"]
    /\ now = 0
    /\ proc = Polling
    /\ effects = [p \in PostIds |-> 0]
    /\ call = NoCall

NextMatch ==
    \/ \E p \in PostIds : SubsFind(p)
    \/ \E p \in PostIds : SubsNotify(p)
    \/ \E p \in PostIds : PostsFind(p)
    \/ \E p \in PostIds : PostsIter(p)
    \/ \E p \in PostIds : PublishFinish(p)

SpecMatch == InitMatch /\ [][NextMatch]_vars

----------------------------------------------------------------------------
\* The creation conversation, handlers/post.py:117-374 and 584-632

\* config.MAX_PRICE (post.py:18, 312)
MAX_PRICE == 10

\* Longest price message, in characters, and the characters it is made of.
MaxLen == 2

PriceChars ==
    {"0", "1", " ", "-", "x"}

PriceTexts ==
    UNION { [1..n -> PriceChars] : n \in 1..MaxLen }

\* Place texts a user answers with, and the seat buttons (seats:<n>).
ConvPlaces ==
    {"A", "C"}

SeatChoices ==
    {2}

\* message.text.replace(" ", ""), post.py:311
ReplaceSpaces(text) ==
    SelectSeq(text, LAMBDA c : c # " ")

DigitValue(c) ==
    CASE c = "0" -> 0
      [] c = "1" -> 1

\* int(...), post.py:311: an optional sign and at least one digit; anything
\* else raises ValueError.
IsInt(t) ==
    LET body == IF t # <<>> /\ t[1] = "-" THEN Tail(t) ELSE t
    IN  /\ body # <<>>
        /\ \A i \in 1..Len(body) : body[i] \in {"0", "1"}

RECURSIVE DecimalValue(_)
DecimalValue(ds) ==
    IF ds = <<>> THEN 0
    ELSE 10 * DecimalValue(SubSeq(ds, 1, Len(ds) - 1)) + DigitValue(ds[Len(ds)])

ParseInt(t) ==
    IF t[1] = "-" THEN 0 - DecimalValue(Tail(t)) ELSE DecimalValue(t)

\* post.py:312: price <= 0 or price > MAX_PRICE raises ValueError
PriceNoUpperLimit(price) ==
    price > 0

PriceInRange(price) ==
    price > 0 /\ price <= MAX_PRICE

\* post.py:310-314: whether the try block ends without ValueError
ValidPrice(text) ==
    /\ IsInt(ReplaceSpaces(text))
    /\ PriceInRange(ParseInt(ReplaceSpaces(text)))

\* cancel_post_creation, post.py:618-632, and cancel_post_callback,
\* post.py:606-615: state.clear()
CancelKeepsDraft(u) ==
    /\ fsm' = [fsm EXCEPT ![u] = "none"]
    /\ UNCHANGED draft

CancelPostCreation(u) ==
    /\ fsm' = [fsm EXCEPT ![u] = "none"]
    /\ draft' = [draft EXCEPT ![u] = NoDraft]

CancelPostCallback(u) ==
    /\ proc.pc = "polling"
    /\ fsm[u] = "confirming"
    /\ CancelPostCreation(u)
    /\ UNCHANGED <<users, posts, nextId, subs, ledger, queue, fwd, rev, run, reply>>
    /\ UNCHANGED lifeVars
    /\ UNCHANGED call

\* process_from, post.py:117-140
ProcessFrom(u) ==
    /\ proc.pc = "polling"
    /\ fsm[u] = "entering_from"
    /\ \/ CancelPostCreation(u)
       \/ \E text \in ConvPlaces :
            /\ draft' = [draft EXCEPT ![u].from_place = text]
            /\ fsm' = [fsm EXCEPT ![u] = "entering_to"]
    /\ UNCHANGED <<users, posts, nextId, subs, ledger, queue, fwd, rev, run, reply>>
    /\ UNCHANGED lifeVars
    /\ UNCHANGED call

\* process_to, post.py:143-178
ProcessTo(u) ==
    /\ proc.pc = "polling"
    /\ fsm[u] = "entering_to"
    /\ \/ CancelPostCreation(u)
       \/ /\ fsm' = [fsm EXCEPT ![u] = "entering_from"]
          /\ UNCHANGED draft
       \/ \E text \in ConvPlaces :
            /\ draft' = [draft EXCEPT ![u].to_place = text]
            /\ fsm' = [fsm EXCEPT ![u] = "entering_time"]
    /\ UNCHANGED <<users, posts, nextId, subs, ledger, queue, fwd, rev, run, reply>>
    /\ UNCHANGED lifeVars
    /\ UNCHANGED call

\* post.py:207-232: the step that follows the departure time
AfterTimeAlwaysPrice(role) ==
    "entering_price"

AfterTime(role) ==
    IF role = "driver" THEN "entering_seats" ELSE "entering_price"

\* process_time, post.py:181-232
ProcessTime(u) ==
    /\ proc.pc = "polling"
    /\ fsm[u] = "entering_time"
    /\ \/ CancelPostCreation(u)
       \/ /\ fsm' = [fsm EXCEPT ![u] = "entering_to"]
          /\ UNCHANGED draft
       \/ /\ draft' = [draft EXCEPT ![u].departure_time = "now"]
          /\ fsm' = [fsm EXCEPT ![u] = AfterTime(draft[u].role)]
    /\ UNCHANGED <<users, posts, nextId, subs, ledger, queue, fwd, rev, run, reply>>
    /\ UNCHANGED lifeVars
    /\ UNCHANGED call

\* process_seats, post.py:235-273
ProcessSeats(u) ==
    /\ proc.pc = "polling"
    /\ fsm[u] = "entering_seats"
    /\ \/ /\ fsm' = [fsm EXCEPT ![u] = "entering_time"]
          /\ UNCHANGED draft
       \/ \E seats \in SeatChoices :
            /\ draft' = [draft EXCEPT ![u].seats = seats]
            /\ fsm' = [fsm EXCEPT ![u] = "entering_price"]
    /\ UNCHANGED <<users, posts, nextId, subs, ledger, queue, fwd, rev, run, reply>>
    /\ UNCHANGED lifeVars
    /\ UNCHANGED call

\* show_post_confirmation, post.py:333-374
ShowPostConfirmationNoKeys(d) ==
    d

ShowPostConfirmationKeepsKeys(d) ==
    IF d.kf # {} /\ d.kt # {}
    THEN d
    ELSE [d EXCEPT !.kf = GenerateKeys(d.from_place), !.kt = GenerateKeys(d.to_place)]

ShowPostConfirmation(d) ==
    [d EXCEPT !.kf = GenerateKeys(d.from_place), !.kt = GenerateKeys(d.to_place)]

\* process_price on a price message, post.py:309-330
PriceMessage(u, text) ==
    IF ValidPrice(text)
    THEN /\ draft' = [draft EXCEPT ![u] =
                        ShowPostConfirmation([draft[u] EXCEPT !.price = ParseInt(ReplaceSpaces(text))])]
         /\ fsm' = [fsm EXCEPT ![u] = "confirming"]
         /\ reply' = [reply EXCEPT ![u] = "confirm"]
    ELSE /\ reply' = [reply EXCEPT ![u] = "bad_price"]
         /\ UNCHANGED <<fsm, draft>>

\* process_price, post.py:276-330
ProcessPrice(u) ==
    /\ proc.pc = "polling"
    /\ fsm[u] = "entering_price"
    /\ \/ CancelPostCreation(u) /\ UNCHANGED reply
       \/ /\ fsm' = [fsm EXCEPT ![u] =
                        IF draft[u].role = "driver" THEN "entering_seats" ELSE "entering_time"]
          /\ UNCHANGED <<draft, reply>>
       \/ \E text \in PriceTexts : PriceMessage(u, text)
    /\ UNCHANGED <<users, posts, nextId, subs, ledger, queue, fwd, rev, run>>
    /\ UNCHANGED lifeVars
    /\ UNCHANGED call

\* edit_post, post.py:584-603
EditPost(u) ==
    /\ proc.pc = "polling"
    /\ fsm[u] = "confirming"
    /\ fsm' = [fsm EXCEPT ![u] = "entering_from"]
    /\ UNCHANGED <<users, draft, posts, nextId, subs, ledger, queue, fwd, rev, run, reply>>
    /\ UNCHANGED lifeVars
    /\ UNCHANGED call

\* One registered user has opened the conversation: the chat is as lines
\* 92-114 of start_create_post leave it, in entering_from with user_id and
\* role stored. The other user's chat is idle, no post exists and the id
\* sequence has one id left.
InitConv ==
    /\ users = Users
    /\ \E c \in Users :
        /\ fsm = [u \in Users |-> IF u = c THEN "entering_from" ELSE "none"]
        /\ draft = [u \in Users |->
                      IF u = c
                      THEN [NoDraft EXCEPT !.user_id = u, !.role = RoleOf(u)]
                      ELSE NoDraft]
    /\ posts = [p \in PostIds |-> NoPost]
    /\ nextId = MaxPosts
    /\ subs = {}
    /\ ledger = [pr \in Pairs |-> 0]
    /\ queue = [pr \in Pairs |-> 0]
    /\ fwd = [pr \in Pairs |-> 0]
    /\ rev = [pr \in Pairs |-> 0]
    /\ run = [p \in PostIds |-> NoRun]
    /\ reply = [u \in Users |-> "none"]
    /\ now = 0
    /\ proc = Polling
    /\ effects = [p \in PostIds |-> 0]
    /\ call = NoCall

NextConv ==
    \/ \E u \in Users : StartCreatePost(u)
    \/ \E u \in Users : ProcessFrom(u)
    \/ \E u \in Users : ProcessTo(u)
    \/ \E u \in Users : ProcessTime(u)
    \/ \E u \in Users : ProcessSeats(u)
    \/ \E u \in Users : ProcessPrice(u)
    \/ \E u \in Users : EditPost(u)
    \/ \E u \in Users : CancelPostCallback(u)
    \/ \E u \in Users : PublishStart(u)
    \/ \E p \in PostIds : SubsFind(p)
    \/ \E p \in PostIds : SubsNotify(p)
    \/ \E p \in PostIds : PostsFind(p)
    \/ \E p \in PostIds : PublishFinish(p)
    \/ \E p \in PostIds : PublishRaise(p)

SpecConv == InitConv /\ [][NextConv]_vars

----------------------------------------------------------------------------
\* Calls of retry_on_database_error and retry_on_network_error,
\* utils/retry_utils.py:10-100

\* Largest max_retries a call is made with, and the delays.
MaxRetries == 3

Delays ==
    {1, 2}

\* Every variable but call, as in a bot that is polling with an empty store.
Quiet ==
    /\ users = Users
    /\ fsm = [u \in Users |-> "none"]
    /\ draft = [u \in Users |-> NoDraft]
    /\ posts = [p \in PostIds |-> NoPost]
    /\ nextId = 1
    /\ subs = {}
    /\ ledger = [pr \in Pairs |-> 0]
    /\ queue = [pr \in Pairs |-> 0]
    /\ fwd = [pr \in Pairs |-> 0]
    /\ rev = [pr \in Pairs |-> 0]
    /\ run = [p \in PostIds |-> NoRun]
    /\ reply = [u \in Users |-> "none"]
    /\ now = 0
    /\ proc = Polling
    /\ effects = [p \in PostIds |-> 0]

NoResult ==
    [raised |-> FALSE, exc |-> -1, value |-> -1, calls |-> 0, waits |-> <<>>]

\* A call about to be made: the function, how each attempt of func will end,
\* max_retries and delay.
InitRetry ==
    /\ Quiet
    /\ call \in [fn : {"retry_on_database_error", "retry_on_network_error"},
                 outs : [1..(MaxRetries + 2) -> Outcomes],
                 max_retries : 0..MaxRetries,
                 delay : Delays,
                 pc : {"called"},
                 res : {NoResult}]

CallRetryOnDatabaseError ==
    /\ call.fn = "retry_on_database_error"
    /\ call.pc = "called"
    /\ call' = [call EXCEPT !.pc = "returned",
                            !.res = RetryOnDatabaseError(call.outs, call.max_retries, call.delay)]
    /\ UNCHANGED <<users, fsm, draft, posts, nextId, subs, ledger, queue, fwd, rev, run, reply>>
    /\ UNCHANGED lifeVars

CallRetryOnNetworkError ==
    /\ call.fn = "retry_on_network_error"
    /\ call.pc = "called"
    /\ call' = [call EXCEPT !.pc = "returned",
                            !.res = RetryOnNetworkError(call.outs, call.max_retries, call.delay)]
    /\ UNCHANGED <<users, fsm, draft, posts, nextId, subs, ledger, queue, fwd, rev, run, reply>>
    /\ UNCHANGED lifeVars

NextRetry ==
    \/ CallRetryOnDatabaseError
    \/ CallRetryOnNetworkError

SpecRetry == InitRetry /\ [][NextRetry]_vars

----------------------------------------------------------------------------
\* safe_message_answer, safe_callback_message_edit and safe_message_edit,
\* utils/retry_utils.py:103-217

\* max_retries=2 at lines 118, 143 and 189
SAFE_MAX_RETRIES == 2

\* How a call of message.answer or edit_text ends: it returns, or raises a
\* TelegramNetworkError, a TelegramBadRequest whose text says the message
\* was not found or cannot be edited, another TelegramBadRequest, or another
\* exception.
SendOutcomes ==
    {"ok", "network", "not_found", "bad_request", "other"}

\* Line 123: except Exception
CaughtOnlyNetwork(out) ==
    out = "network"

CaughtByAnswer(out) ==
    out # "ok"

\* Lines 148 and 194: except (TelegramBadRequest, TelegramNetworkError)
TelegramError(out) ==
    out \in {"network", "not_found", "bad_request"}

\* Lines 152 and 198: the text of the error
NotFoundNever(out) ==
    FALSE

NotFoundText(out) ==
    out = "not_found"

\* What a safe_* call has done: whether it raised, the value it returned,
\* whether a call of func succeeded (ok), how often func was called, whether
\* the text went out as a new message (sent) and whether the failure was
\* announced (alerted).
NoSafeResult ==
    [raised |-> FALSE, value |-> FALSE, ok |-> FALSE, calls |-> 0,
     sent |-> FALSE, alerted |-> FALSE]

\* safe_message_answer, lines 103-125
SafeMessageAnswer(outs) ==
    LET r == RetryOnNetworkError(outs, SAFE_MAX_RETRIES, DELAY)
    IN  IF ~r.raised
        THEN [NoSafeResult EXCEPT !.value = TRUE, !.ok = TRUE, !.calls = r.calls]
        ELSE IF CaughtByAnswer(outs[r.exc + 1])
             THEN [NoSafeResult EXCEPT !.calls = r.calls]
             ELSE [NoSafeResult EXCEPT !.raised = TRUE, !.calls = r.calls]

\* safe_callback_message_edit, lines 128-171, and safe_message_edit, lines
\* 174-217: fb is how the message.answer of lines 164 and 210 ends.
SafeEdit(outs, fb) ==
    LET r == RetryOnNetworkError(outs, SAFE_MAX_RETRIES, DELAY)
    IN  IF ~r.raised
        THEN [NoSafeResult EXCEPT !.value = TRUE, !.ok = TRUE, !.calls = r.calls]
        ELSE IF TelegramError(outs[r.exc + 1])
             THEN IF NotFoundText(outs[r.exc + 1])
                  THEN [NoSafeResult EXCEPT !.calls = r.calls, !.alerted = TRUE]
                  ELSE [NoSafeResult EXCEPT !.calls = r.calls,
                                            !.sent = (fb = "ok"),
                                            !.value = (fb = "ok")]
             ELSE [NoSafeResult EXCEPT !.calls = r.calls]

SafeCallbackMessageEdit(outs, fb) ==
    SafeEdit(outs, fb)

SafeMessageEdit(outs, fb) ==
    SafeEdit(outs, fb)

\* A call about to be made: the function, how each call of answer or
\* edit_text will end and how the message.answer of the fallback will end.
InitSafe ==
    /\ Quiet
    /\ call \in [fn : {"safe_message_answer", "safe_callback_message_edit",
                       "safe_message_edit"},
                 outs : [1..(SAFE_MAX_RETRIES + 2) -> SendOutcomes],
                 fb : {"ok", "network", "other"},
                 pc : {"called"},
                 res : {NoSafeResult}]

CallSafeMessageAnswer ==
    /\ call.fn = "safe_message_answer"
    /\ call.pc = "called"
    /\ call' = [call EXCEPT !.pc = "returned", !.res = SafeMessageAnswer(call.outs)]
    /\ UNCHANGED <<users, fsm, draft, posts, nextId, subs, ledger, queue, fwd, rev, run, reply>>
    /\ UNCHANGED lifeVars

CallSafeCallbackMessageEdit ==
    /\ call.fn = "safe_callback_message_edit"
    /\ call.pc = "called"
    /\ call' = [call EXCEPT !.pc = "returned",
                            !.res = SafeCallbackMessageEdit(call.outs, call.fb)]
    /\ UNCHANGED <<users, fsm, draft, posts, nextId, subs, ledger, queue, fwd, rev, run, reply>>
    /\ UNCHANGED lifeVars

CallSafeMessageEdit ==
    /\ call.fn = "safe_message_edit"
    /\ call.pc = "called"
    /\ call' = [call EXCEPT !.pc = "returned",
                            !.res = SafeMessageEdit(call.outs, call.fb)]
    /\ UNCHANGED <<users, fsm, draft, posts, nextId, subs, ledger, queue, fwd, rev, run, reply>>
    /\ UNCHANGED lifeVars

NextSafe ==
    \/ CallSafeMessageAnswer
    \/ CallSafeCallbackMessageEdit
    \/ CallSafeMessageEdit

SpecSafe == InitSafe /\ [][NextSafe]_vars

----------------------------------------------------------------------------
\* An async with get_session() block, database/db.py:32-53

\* Most rows the body of a block adds to the session.
MaxWrites == 2

\* How the body of the block, or session.commit(), ends: it returns, or it
\* raises an exception whose text names a timeout (line 43), or another one.
BlockOutcomes ==
    {"ok", "timeout", "other"}

\* Line 43: "timeout" in str(e).lower() or "Request timeout error" in str(e)
TimeoutText(e) ==
    e = "timeout"

\* Line 40: await session.rollback()
SessionRollbackSkipped(c) ==
    c

SessionRollback(c) ==
    [c EXCEPT !.pending = 0, !.rollbacks = @ + 1]

\* A block about to be entered: how its body ends the first time it runs
\* (body) and how it would end if it ran again (body2), how a commit ends,
\* and the rows the body adds. pending: rows in the session that are not
\* committed; stored: rows the block has committed; error: the exception
\* that leaves the async with statement.
InitSession ==
    /\ Quiet
    /\ call \in [fn : {"get_session"},
                 body : BlockOutcomes,
                 body2 : BlockOutcomes,
                 commit : BlockOutcomes,
                 writes : 0..MaxWrites,
                 pc : {"enter"},
                 caught : {"none"},
                 pending : {0},
                 stored : {0},
                 bodyRuns : {0},
                 commitCalls : {0},
                 commits : {0},
                 rollbacks : {0},
                 error : {"none"}]

\* Lines 35-37: the session is opened and handed to the body.
SessionEnter ==
    /\ call.fn = "get_session"
    /\ call.pc = "enter"
    /\ call' = [call EXCEPT !.pc = "body"]
    /\ UNCHANGED <<users, fsm, draft, posts, nextId, subs, ledger, queue, fwd, rev, run, reply>>
    /\ UNCHANGED lifeVars

\* The body of the async with statement runs: it adds its rows and returns
\* (the generator goes on after line 37) or raises (the exception is thrown
\* into the generator at line 37 and caught at line 39).
SessionBody ==
    /\ call.fn = "get_session"
    /\ call.pc = "body"
    /\ call' = [call EXCEPT !.bodyRuns = @ + 1,
                            !.pending = call.writes,
                            !.caught = IF call.body = "ok" THEN "none" ELSE call.body,
                            !.pc = IF call.body = "ok" THEN "commit" ELSE "except"]
    /\ UNCHANGED <<users, fsm, draft, posts, nextId, subs, ledger, queue, fwd, rev, run, reply>>
    /\ UNCHANGED lifeVars

\* Line 38: await session.commit(); an exception it raises is caught at
\* line 39.
SessionCommit ==
    /\ call.fn = "get_session"
    /\ call.pc = "commit"
    /\ call' = IF call.commit = "ok"
               THEN [call EXCEPT !.commitCalls = @ + 1,
                                 !.commits = @ + 1,
                                 !.stored = @ + call.pending,
                                 !.pending = 0,
                                 !.pc = "exited"]
               ELSE [call EXCEPT !.commitCalls = @ + 1,
                                 !.caught = call.commit,
                                 !.pc = "except"]
    /\ UNCHANGED <<users, fsm, draft, posts, nextId, subs, ledger, queue, fwd, rev, run, reply>>
    /\ UNCHANGED lifeVars

\* Lines 39-53: rollback; a timeout goes on to the second yield of line 46,
\* any other exception is raised again (line 53).
SessionExcept ==
    /\ call.fn = "get_session"
    /\ call.pc = "except"
    /\ call' = IF TimeoutText(call.caught)
               THEN [SessionRollback(call) EXCEPT !.pc = "second_yield"]
               ELSE [SessionRollback(call) EXCEPT !.pc = "exited", !.error = call.caught]
    /\ UNCHANGED <<users, fsm, draft, posts, nextId, subs, ledger, queue, fwd, rev, run, reply>>
    /\ UNCHANGED lifeVars

\* Line 46: the generator yields a second time. The context manager that
\* asynccontextmanager (line 32) builds expects the generator to end after
\* its single yield: __aexit__ raises RuntimeError ("generator didn't stop
\* after athrow()" when the body raised, "generator didn't stop" when the
\* commit did). The body is not run again, and when the suspended generator
\* is closed the GeneratorExit raised at line 46 passes except Exception
\* (line 49), so line 47 is not reached.
SessionSecondYield ==
    /\ call.fn = "get_session"
    /\ call.pc = "second_yield"
    /\ call' = [call EXCEPT !.pc = "exited", !.error = "RuntimeError"]
    /\ UNCHANGED <<users, fsm, draft, posts, nextId, subs, ledger, queue, fwd, rev, run, reply>>
    /\ UNCHANGED lifeVars

NextSession ==
    \/ SessionEnter
    \/ SessionBody
    \/ SessionCommit
    \/ SessionExcept
    \/ SessionSecondYield

SpecSession == InitSession /\ [][NextSession]_vars

----------------------------------------------------------------------------
\* The resets of the conversation (handlers/start.py) beside the creation
\* conversation: /start and the main_menu callback carry no state filter and
\* are handled in every conversation state.

CreatePostStates ==
    {"entering_from", "entering_to", "entering_time", "entering_seats",
     "entering_price", "confirming"}

\* state.clear(), start.py:52 and 343: the state becomes None and the stored
\* data is emptied.
ClearDataKeepsDraft(dr, u) ==
    dr

ClearData(dr, u) ==
    [dr EXCEPT ![u] = NoDraft]

ClearState(f, u) ==
    [f EXCEPT ![u] = "none"]

\* cmd_start, start.py:24-115, without parameter or with the parameter
\* create_post (the parameter post_<p> is ShowPostFromChannel). The state is
\* cleared before anything is looked up; a registered user is shown the main
\* menu, or start_create_post runs on the cleared state (start.py:69-83); an
\* unregistered user is asked for the agreement.
CmdStart(u) ==
    /\ proc.pc = "polling"
    /\ \E param \in {"none", "create_post"} :
        LET res == DefaultRetry(CheckActivePostAttempt)
        IN  IF u \notin users
            THEN /\ fsm' = [fsm EXCEPT ![u] = "waiting_agreement"]
                 /\ draft' = ClearData(draft, u)
                 /\ reply' = [reply EXCEPT ![u] = "agreement"]
            ELSE IF param = "none"
            THEN /\ fsm' = ClearState(fsm, u)
                 /\ draft' = ClearData(draft, u)
                 /\ reply' = [reply EXCEPT ![u] = "main_menu"]
            ELSE IF res.raised
            THEN /\ fsm' = ClearState(fsm, u)
                 /\ draft' = ClearData(draft, u)
                 /\ reply' = [reply EXCEPT ![u] = "db_error"]
            ELSE IF HasActivePost(u)
            THEN /\ fsm' = ClearState(fsm, u)
                 /\ draft' = ClearData(draft, u)
                 /\ reply' = [reply EXCEPT ![u] = "already_active"]
            ELSE /\ fsm' = [fsm EXCEPT ![u] = "entering_from"]
                 /\ draft' = [ClearData(draft, u) EXCEPT ![u].user_id = u,
                                                         ![u].role = RoleOf(u)]
                 /\ reply' = [reply EXCEPT ![u] = "ask_from"]
    /\ UNCHANGED <<users, posts, nextId, subs, ledger, queue, fwd, rev, run>>
    /\ UNCHANGED lifeVars
    /\ UNCHANGED call

\* callback_main_menu, start.py:337-360
CallbackMainMenu(u) ==
    /\ proc.pc = "polling"
    /\ fsm' = ClearState(fsm, u)
    /\ draft' = ClearData(draft, u)
    /\ reply' = [reply EXCEPT ![u] =
                   IF u \in users THEN "menu_edited" ELSE "not_registered"]
    /\ UNCHANGED <<users, posts, nextId, subs, ledger, queue, fwd, rev, run>>
    /\ UNCHANGED lifeVars
    /\ UNCHANGED call

\* The creation conversation with the resets, from the chat InitConv
\* describes.
NextReset ==
    \/ NextConv
    \/ \E u \in Users : CmdStart(u)
    \/ \E u \in Users : CallbackMainMenu(u)

SpecReset == InitConv /\ [][NextReset]_vars

\* The creation conversation with both buttons of the confirmation step that
\* store the draft: post:publish up to its commit, and post:subscribe. The
\* Subscription table is filled up to MaxSubs rows.
NextDraft ==
    \/ \E u \in Users : StartCreatePost(u)
    \/ \E u \in Users : ProcessFrom(u)
    \/ \E u \in Users : ProcessTo(u)
    \/ \E u \in Users : ProcessTime(u)
    \/ \E u \in Users : ProcessSeats(u)
    \/ \E u \in Users : ProcessPrice(u)
    \/ \E u \in Users : EditPost(u)
    \/ \E u \in Users : CancelPostCallback(u)
    \/ \E u \in Users : PublishStart(u)
    \/ \E u \in Users : Cardinality(subs) < MaxSubs /\ SubscribeToRoute(u)

SpecDraft == InitConv /\ [][NextDraft]_vars

----------------------------------------------------------------------------
\* Claims

\* C1: within one run of publish_post for a new post P, every recipient is
\* enqueued at most once for P, the subscription pass and the post-to-post
\* pass counted together.
C1_AtMostOneEnqueuePerRun ==
    \A pr \in Pairs : fwd[pr] <= 1

\* A recipient enqueued for P by the subscription pass and again by the
\* post-to-post pass of the same publish.
C1_Duplicate ==
    \E p \in PostIds : \E u \in run[p].notified : fwd[<<p, u>>] >= 2

\* C2: over any sequence of publishes at most one dispatch is ever enqueued
\* for a (post, recipient) pair, the reverse notification to a publishing
\* author about a matching post included.
C2_AtMostOneDispatchPerPair ==
    \A pr \in Pairs : Sent(pr) <= 1

\* An author enqueued once about M when M was published, and again about M
\* by the author's own later publish.
C2_ReverseDuplicate ==
    \E pr \in Pairs : fwd[pr] = 1 /\ rev[pr] >= 1

\* C3: a ledger entry exists from the moment a dispatch is enqueued: when the
\* post-to-post pass of a publish is about to read the ledger for a matching
\* author, every recipient enqueued by the subscription pass of that publish
\* is in the ledger.
C3_LedgerHoldsEnqueued ==
    \A p \in PostIds :
        (run[p].pc = "iter" /\ run[p].matches # <<>>) =>
            \A u \in run[p].notified : ledger[<<p, u>>] > 0

\* C4: the ledger never holds two entries for one (post, recipient) pair.
C4_LedgerUnique ==
    \A pr \in Pairs : ledger[pr] <= 1

\* Two deliveries of one pair have been processed and one entry is stored.
C4_TwoDeliveriesOneEntry ==
    \E pr \in Pairs : Processed(pr) >= 2 /\ ledger[pr] = 1

\* C5: every author has at most one post with status active.
C5_OneActivePostPerAuthor ==
    \A u \in Users :
        Cardinality({ p \in PostIds :
            Visible(p) /\ posts[p].author = u /\ posts[p].status = "active" }) <= 1

\* C6: start_create_post for a registered user with an active post answers
\* "already have an active post" and leaves the conversation state alone; for
\* a registered user without an active post it enters entering_from with
\* user_id and role stored.
C6_StartCreatePost ==
    [][\A u \in users :
          StartCreatePost(u) =>
              IF HasActivePost(u)
              THEN reply'[u] = "already_active" /\ fsm'[u] = fsm[u]
              ELSE /\ fsm'[u] = "entering_from"
                   /\ draft'[u].user_id = u
                   /\ draft'[u].role = RoleOf(u)]_vars

\* C7: no publish_post ends with an exception raised by matching or by a
\* dispatch enqueue.
C7_MatchingErrorsSwallowed ==
    \A p \in PostIds : run[p].pc = "failed" => run[p].failedIn # "matching"

\* C8: a failure of publish_post after its commit leaves the post row stored
\* and its status unchanged.
C8_CommittedRowSurvives ==
    [][\A p \in PostIds :
          (run[p].pc \in {"subs", "notify", "posts", "iter"} /\ run'[p].pc = "failed") =>
              /\ posts'[p].committed
              /\ posts'[p] = posts[p]
              /\ posts'[p].status = "active"]_vars

\* A publish that failed in matching, its row still stored and active.
C8_FailedAfterCommit ==
    \E p \in PostIds :
        /\ run[p].pc = "failed"
        /\ run[p].failedIn = "matching"
        /\ Visible(p)
        /\ posts[p].status = "active"

\* C9: in a publish the post-to-post pass starts only after the subscription
\* pass has completed, and success is reported only after both completed.
C9_PassOrder ==
    \A p \in PostIds :
        /\ run[p].nPosts > 0 => run[p].subsDone
        /\ run[p].pc = "done" => (run[p].subsDone /\ run[p].postsDone)

\* A publish has reported success after both passes enqueued a dispatch.
C9_BothPassesThenSuccess ==
    \E p \in PostIds :
        /\ run[p].pc = "done"
        /\ run[p].notified # {}
        /\ \E pr \in Pairs : rev[pr] > 0 /\ pr[2] = run[p].user

\* C10: for every post row created, once its publish has ended each matching
\* pass has run exactly once.
C10_EachPassExactlyOnce ==
    \A p \in PostIds :
        (Visible(p) /\ run[p].pc \in {"done", "failed"}) =>
            (run[p].nSubs = 1 /\ run[p].nPosts = 1)

\* C11: a publish_post that fails before its commit leaves no post row of
\* the attempt, enqueues no notification and leaves the ledger unchanged.
C11_PrecommitFailureRollsBack ==
    [][\A p \in PostIds :
          (run[p].pc = "idle" /\ run'[p].pc = "failed") =>
              /\ posts'[p] = NoPost
              /\ queue' = queue
              /\ fwd' = fwd
              /\ rev' = rev
              /\ ledger' = ledger]_vars

\* An attempt failed before its commit after an earlier publish had enqueued
\* a notification and the worker had recorded it.
C11_FailedBeforeCommit ==
    \E p \in PostIds :
        /\ run[p].pc = "failed"
        /\ run[p].failedIn = "precommit"
        /\ posts[p] = NoPost
        /\ \E pr \in Pairs : fwd[pr] > 0 /\ ledger[pr] > 0

C13_ExpiredIsTerminal ==
    /\ [][\A p \in PostIds :
            posts[p].status = "expired" => posts'[p].status = "expired"]_vars
    /\ [][\A u \in Users, p \in PostIds :
            (ShowPostFromChannel(u, p) /\ reply'[u] = "post_actions") =>
                posts[p].status \in {"active", "paused"}]_vars

\* An expired post whose owner has asked for it, time having passed beyond
\* its expiry while polling runs (the owner's actions are being handled).
C13_ExpiredAndVisited ==
    \E p \in PostIds :
        /\ posts[p].status = "expired"
        /\ reply[posts[p].author] # "none"
        /\ now > posts[p].expires_at
        /\ proc.pc = "polling"

\* C14: expiry is idempotent: the expiry of a post is announced at most once,
\* and a tick leaves an already expired post and its announcements alone.
C14_ExpiryIdempotent ==
    /\ [](\A p \in PostIds : effects[p] <= 1)
    /\ [][TickOk =>
            \A p \in PostIds :
                posts[p].status = "expired" =>
                    /\ posts'[p] = posts[p]
                    /\ effects'[p] = effects[p]]_vars

\* An expired post, announced once, that the worker (still alive) meets again
\* at a later instant.
C14_ExpiredSeenAgain ==
    \E p \in PostIds :
        /\ posts[p].status = "expired"
        /\ effects[p] = 1
        /\ now > posts[p].expires_at
        /\ WorkerAlive

\* C15: a tick that commits leaves every active or paused post whose expiry
\* time has come in status expired, and no post is expired before its expiry
\* time.
C15_ExpiredAtFirstTickAfterDeadline ==
    /\ [][TickOk =>
            \A p \in PostIds :
                (/\ Visible(p)
                 /\ posts[p].status \in {"active", "paused"}
                 /\ posts[p].expires_at <= now) => posts'[p].status = "expired"]_vars
    /\ [](\A p \in PostIds : posts[p].status = "expired" => posts[p].expires_at <= now)

\* At the expiry time of one post it is expired while a later post, not yet
\* due, is still paused.
C15_DueExpiredOtherNot ==
    \E p, q \in PostIds :
        /\ posts[p].status = "expired"
        /\ posts[p].expires_at = now
        /\ posts[q].status = "paused"
        /\ posts[q].expires_at > now

\* C16: a failed tick leaves the worker running, and while the process lives
\* every overdue post that is active or paused is eventually expired (or
\* withdrawn by its owner).
C16_WorkerSurvivesFailedTick ==
    /\ [][TickFail => proc'.worker = "running"]_vars
    /\ \A p \in PostIds :
          (Overdue(p) /\ WorkerAlive) ~>
              (posts[p].status \notin {"active", "paused"} \/ proc.pc \in {"returned", "raised"})

\* A post overdue for more than one instant while the worker is alive: no
\* tick has committed since its expiry time.
C16_OverdueAfterMissedTicks ==
    \E p \in PostIds :
        /\ Overdue(p)
        /\ WorkerAlive
        /\ now > posts[p].expires_at

\* C17: whenever main has returned or raised after start_expiration_worker
\* was called, stop_expiration_worker and close_db have been called.
C17_WorkerStoppedOnEveryExit ==
    (proc.pc \in {"returned", "raised"} /\ proc.worker # "none") =>
        (proc.worker = "stopped" /\ proc.db = "closed")

\* C18: find_matching_subscriptions(P) returns exactly the users, other
\* than P's author, who own a subscription whose origin keys meet P's origin
\* keys and whose destination keys meet P's destination keys.
C18_MatchingSubscriptionOwners ==
    [][\A p \in PostIds :
          (run[p].pc = "subs" /\ run'[p].pc = "notify") =>
              \A u \in Users :
                  u \in run'[p].cands <=>
                      /\ u # posts[p].author
                      /\ \E s \in subs :
                            /\ s.user = u
                            /\ s.kf \cap posts[p].kf # {}
                            /\ s.kt \cap posts[p].kt # {}]_vars

\* The pass returned an owner who also holds a subscription that meets the
\* post on one endpoint only.
C18_OwnerWithMatchAndMiss ==
    \E p \in PostIds :
        /\ run[p].subsDone
        /\ \E s, t \in subs :
              /\ s.user \in run[p].cands
              /\ t.user = s.user
              /\ t.kf \cap posts[p].kf = {} \/ t.kt \cap posts[p].kt = {}

\* C19: find_matching_posts(P) returns exactly the stored posts other than
\* P that are active, of the opposite role, by another author, and whose
\* origin and destination keys both meet P's.
C19_MatchingPosts ==
    [][\A p \in PostIds :
          (run[p].pc = "posts" /\ run'[p].pc = "iter") =>
              \A m \in PostIds :
                  (\E i \in 1..Len(run'[p].matches) : run'[p].matches[i] = m) <=>
                      /\ m # p
                      /\ posts[m].committed
                      /\ posts[m].status = "active"
                      /\ posts[m].role \notin {"none", posts[p].role}
                      /\ posts[m].author # posts[p].author
                      /\ posts[m].kf \cap posts[p].kf # {}
                      /\ posts[m].kt \cap posts[p].kt # {}]_vars

\* The loop is about to visit a matching post.
C19_MatchFound ==
    \E p \in PostIds :
        /\ run[p].pc = "iter"
        /\ run[p].matches # <<>>
        /\ posts[Head(run[p].matches)].status = "active"
        /\ posts[Head(run[p].matches)].role # posts[p].role

\* C20: the subscription pass enqueues only users find_matching_subscriptions
\* returned, and never a recipient who is in the ledger for the post when
\* the dispatch is enqueued.
C20_NotifyOnlyUnrecorded ==
    [][\A p \in PostIds :
          (run[p].pc = "notify" /\ run'[p].pc = "posts") =>
              /\ run'[p].notified \subseteq run'[p].cands
              /\ \A u \in Users :
                    fwd'[<<p, u>>] > fwd[<<p, u>>] =>
                        (u \in run'[p].cands /\ ledger[<<p, u>>] = 0)]_vars

\* A matching subscription owner was left out because the ledger already
\* held an entry for the post.
C20_RecordedCandidateSkipped ==
    \E p \in PostIds : \E u \in run[p].cands :
        /\ run[p].subsDone
        /\ ledger[<<p, u>>] > 0
        /\ u \notin run[p].notified
        /\ fwd[<<p, u>>] = 0

\* C21: subscribe_to_route never stores a second subscription with the same
\* owner, origin keys and destination keys; a duplicate attempt leaves the
\* stored subscriptions unchanged and is answered "already exists", and a
\* non-duplicate attempt stores exactly one new subscription.
C21_SubscribeOnce ==
    /\ [](\A s \in subs : s.n = 1)
    /\ [][\A u \in Users :
            SubscribeToRoute(u) =>
                IF SameKey(subs, draft[u].user_id, draft[u].kf, draft[u].kt) # {}
                THEN subs' = subs /\ reply'[u] = "already_exists"
                ELSE /\ subs \subseteq subs'
                     /\ Cardinality(subs') = Cardinality(subs) + 1
                     /\ Cardinality(SameKey(subs', draft[u].user_id, draft[u].kf, draft[u].kt)) = 1]_vars

\* A user who holds a subscription on the draft's route was told that it
\* already exists.
C21_DuplicateAnswered ==
    \E u \in Users :
        /\ reply[u] = "already_exists"
        /\ SameKey(subs, draft[u].user_id, draft[u].kf, draft[u].kt) # {}

\* C22: every post publish_post creates has a seat count exactly when its
\* role is driver: a driver conversation at the price step or at confirming
\* has a seat choice in its draft, and a passenger conversation at confirming
\* has none, whatever back, edit and restart steps came before.
C22_SeatsIffDriver ==
    /\ \A p \in PostIds :
          posts[p] # NoPost => (posts[p].seats # 0 <=> posts[p].role = "driver")
    /\ \A u \in Users :
          /\ (fsm[u] \in {"entering_price", "confirming"} /\ draft[u].role = "driver")
                => draft[u].seats \in SeatChoices
          /\ (fsm[u] = "confirming" /\ draft[u].role = "passenger")
                => draft[u].seats = 0

\* A driver's post was committed with the seat count chosen in the
\* conversation.
C22_DriverPostWithSeats ==
    \E p \in PostIds :
        /\ posts[p].committed
        /\ posts[p].role = "driver"
        /\ posts[p].seats \in SeatChoices

\* The price messages C23 is about: not an integer once the spaces are
\* removed, or an integer outside 1..MAX_PRICE.
C23_RejectedTexts ==
    { text \in PriceTexts :
        ~(/\ IsInt(ReplaceSpaces(text))
          /\ ParseInt(ReplaceSpaces(text)) >= 1
          /\ ParseInt(ReplaceSpaces(text)) <= MAX_PRICE) }

\* C23: every row publish_post writes has an integer price with
\* 1 <= price <= MAX_PRICE; a price message that is not an integer or is
\* outside that range leaves the conversation in entering_price, the draft
\* as it was and the store untouched (a step that does otherwise handles no
\* such message).
C23_PriceValidated ==
    [][/\ \A p \in PostIds :
            posts'[p] # posts[p] =>
                \/ posts'[p] = NoPost
                \/ posts'[p].price >= 1 /\ posts'[p].price <= MAX_PRICE
       /\ \A u \in Users :
            fsm[u] = "entering_price" =>
                \/ /\ fsm'[u] = "entering_price"
                   /\ draft' = draft
                   /\ posts' = posts
                   /\ reply'[u] = "bad_price"
                \/ \A text \in C23_RejectedTexts : ~PriceMessage(u, text)]_vars

\* A price message was rejected in a conversation that had stored a price
\* in an earlier round.
C23_RejectedKeepsPrice ==
    \E u \in Users :
        /\ reply[u] = "bad_price"
        /\ fsm[u] = "entering_price"
        /\ draft[u].price = MAX_PRICE

\* C24: retry_on_database_error calls func at most max_retries + 1 times and
\* returns or raises after that many calls at the latest; when every attempt
\* fails with a timeout-class error it raises the exception of the last
\* attempt and returns no value.
C24_BoundedAttempts ==
    (call.fn = "retry_on_database_error" /\ call.pc = "returned") =>
        /\ call.res.calls <= call.max_retries + 1
        /\ call.res.raised \/ call.res.value >= 0
        /\ (\A k \in 0..call.max_retries : call.outs[k + 1] \in {"timeout", "athrow"})
              => /\ call.res.raised
                 /\ call.res.exc = call.max_retries
                 /\ call.res.value = -1
                 /\ call.res.calls = call.max_retries + 1

\* A call with the default max_retries whose attempts all timed out.
C24_AllAttemptsTimedOut ==
    /\ call.fn = "retry_on_database_error"
    /\ call.pc = "returned"
    /\ call.max_retries = MAX_RETRIES
    /\ \A k \in 0..call.max_retries : call.outs[k + 1] = "timeout"
    /\ call.res.calls = MAX_RETRIES + 1

\* C25: in both retry functions the wait after failed attempt k (from 0) is
\* delay * 2^k and no wait follows the final attempt; with max_retries = 2
\* and delay = 1 the waits of a call whose attempts all fail are 1 then 2.
C25_ExponentialBackoff ==
    call.pc = "returned" =>
        /\ \A k \in 0..(Len(call.res.waits) - 1) :
              call.res.waits[k + 1] = call.delay * (2 ^ k)
        /\ Len(call.res.waits) = call.res.calls - 1
        /\ (/\ call.max_retries = 2
            /\ call.delay = 1
            /\ call.res.calls = 3)
              => call.res.waits = <<1, 2>>

\* A call with max_retries = 2 and delay = 1 that used all its attempts.
C25_WaitsOneThenTwo ==
    /\ call.pc = "returned"
    /\ call.max_retries = 2
    /\ call.delay = 1
    /\ call.res.raised
    /\ call.res.waits = <<1, 2>>

\* C26: an error outside the retried class (no timeout for
\* retry_on_database_error, no network error for retry_on_network_error) is
\* raised from the attempt in which it occurs, with no further call of func
\* and no wait after it, on the first attempt or after retried failures.
C26_OtherErrorsNotRetried ==
    call.pc = "returned" =>
        \A k \in 0..call.max_retries :
            (/\ \A j \in 0..(k - 1) :
                    IF call.fn = "retry_on_database_error"
                    THEN call.outs[j + 1] \in {"timeout", "athrow"}
                    ELSE call.outs[j + 1] = "network"
             /\ IF call.fn = "retry_on_database_error"
                THEN call.outs[k + 1] \in {"network", "other"}
                ELSE call.outs[k + 1] \in {"timeout", "athrow", "other"})
              => /\ call.res.raised
                 /\ call.res.exc = k
                 /\ call.res.calls = k + 1
                 /\ Len(call.res.waits) = k

\* A network call whose second attempt failed with another error after the
\* first was retried.
C26_OtherErrorAfterRetry ==
    /\ call.fn = "retry_on_network_error"
    /\ call.pc = "returned"
    /\ call.outs[1] = "network"
    /\ call.outs[2] = "other"
    /\ call.res.exc = 1

\* C29: safe_message_answer never raises; it makes at most 3 send attempts,
\* each but the first after a network error; it returns True exactly when an
\* attempt succeeded, and False after the first error that is no network
\* error or after three network errors.
C29_SafeAnswer ==
    (call.fn = "safe_message_answer" /\ call.pc = "returned") =>
        /\ ~call.res.raised
        /\ call.res.calls >= 1 /\ call.res.calls <= 3
        /\ \A k \in 1..(call.res.calls - 1) : call.outs[k] = "network"
        /\ call.res.value <=> call.outs[call.res.calls] = "ok"
        /\ ~call.res.value =>
              \/ call.outs[call.res.calls] \notin {"ok", "network"}
              \/ call.res.calls = 3 /\ \A k \in 1..3 : call.outs[k] = "network"

\* The third send succeeded after two network errors.
C29_ThirdAttemptSucceeds ==
    /\ call.fn = "safe_message_answer"
    /\ call.pc = "returned"
    /\ call.res.calls = 3
    /\ call.res.value

C28_TimeoutRunsBodyAgain ==
    (call.fn = "get_session" /\ call.pc = "exited" /\ call.body = "timeout") =>
        /\ call.rollbacks >= 1
        /\ call.bodyRuns = 2
        /\ (call.body2 = "ok" /\ call.commit = "ok") =>
              (call.commits = 1 /\ call.error = "none")
        /\ call.body2 # "ok" => call.error = call.body2

\* A block whose body timed out has been left.
C28_TimedOutBlockLeft ==
    /\ call.fn = "get_session"
    /\ call.pc = "exited"
    /\ call.body = "timeout"
    /\ call.body2 = "ok"
    /\ call.rollbacks = 1

\* C31: every channel message published by publish_post belongs to a
\* committed post row: in no reachable state has publish_to_channel returned
\* a message id for a post whose row was rolled back or never committed.
C31_ChannelMessageHasRow ==
    \A p \in PostIds : run[p].channel_msg_id # 0 => posts[p].committed

\* publish_to_channel returned a message id, session.commit() raised and
\* get_session rolled the row back: the channel shows a post that no table
\* holds.
C31_MessageOfRolledBackPost ==
    \E p \in PostIds :
        /\ run[p].channel_msg_id = p
        /\ run[p].failedIn = "precommit"
        /\ posts[p] = NoPost

\* C32: in the post-to-post pass of publish_post the two directions are
\* coupled: in the iteration for a matching post M the publishing author is
\* enqueued a notification about M if and only if M's author is enqueued a
\* notification about the new post, and when M's author is skipped (already
\* in the ledger, or without a user record) the publishing author is
\* enqueued nothing about M.
C32_DirectionsCoupled ==
    [][\A p \in PostIds :
          (run[p].pc = "iter" /\ run[p].matches # <<>> /\ run'[p] # run[p]) =>
              LET m == Head(run[p].matches)
                  a == posts[m].author
                  u == run[p].user
              IN  /\ (rev'[<<m, u>>] > rev[<<m, u>>]) <=>
                         (fwd'[<<p, a>>] > fwd[<<p, a>>])
                  /\ (a \notin users \/ ledger[<<p, a>>] > 0) =>
                         rev'[<<m, u>>] = rev[<<m, u>>]]_vars

\* A publish ended in the iteration for M after the first enqueue: M's
\* author, whom the subscription pass had not enqueued, is enqueued about
\* the new post, and the publishing author is not enqueued about M.
C32_OnlyMatchingAuthorEnqueued ==
    \E p \in PostIds : \E m \in PostIds \ {p} :
        /\ run[p].pc = "failed"
        /\ run[p].failedIn = "matching"
        /\ run[p].nPosts = 1
        /\ posts[m].committed
        /\ posts[m].author \notin run[p].notified
        /\ fwd[<<p, posts[m].author>>] > 0
        /\ rev[<<m, run[p].user>>] = 0

\* C33: whenever the creation conversation is in state confirming, the draft
\* holds user_id, role, from_place, to_place, departure_time, price,
\* keys_from and keys_to, whatever sequence of answers, back, edit and cancel
\* steps led there; publish_post and subscribe_to_route, which are accepted
\* only in confirming, never run with one of them missing.
C33_ConfirmingDraftComplete ==
    \A u \in Users :
        fsm[u] = "confirming" =>
            /\ draft[u].user_id = u
            /\ draft[u].role = RoleOf(u)
            /\ draft[u].from_place # ""
            /\ draft[u].to_place # ""
            /\ draft[u].departure_time # ""
            /\ draft[u].price > 0
            /\ draft[u].kf # {}
            /\ draft[u].kt # {}

\* The confirmation step reached a second time, after an edit: the
\* subscription made at the first confirmation holds other keys than the
\* draft now confirmed.
C33_ConfirmingAgainAfterEdit ==
    \E u \in Users :
        /\ fsm[u] = "confirming"
        /\ \E s \in subs : s.user = u /\ (s.kf # draft[u].kf \/ s.kt # draft[u].kt)

\* C34: the key sets stored with a published post or with a subscription
\* created from the confirmation step are the ones generated from the
\* draft's origin and destination texts of that moment: after an edit or a
\* back navigation that changed from_place or to_place, keys of the earlier
\* texts are not stored.
C34_StoredKeysAreCurrent ==
    [][/\ \A p \in PostIds :
            (run[p].pc = "idle" /\ run'[p].pc = "subs") =>
                /\ posts'[p].kf = GenerateKeys(draft[run'[p].user].from_place)
                /\ posts'[p].kt = GenerateKeys(draft[run'[p].user].to_place)
       /\ \A s \in subs' \ subs :
            /\ s.kf = GenerateKeys(draft[s.user].from_place)
            /\ s.kt = GenerateKeys(draft[s.user].to_place)]_vars

\* A post committed with the keys of a changed origin: the subscription of
\* the first confirmation holds the keys of the earlier text.
C34_PublishedAfterChangingOrigin ==
    \E p \in PostIds : \E s \in subs :
        /\ posts[p].committed
        /\ s.user = posts[p].author
        /\ s.kf # posts[p].kf

\* C35: a step that cancels the creation conversation (the cancel text in
\* entering_from, entering_to, entering_time or entering_price, the cancel
\* callback in confirming) clears the conversation state and the draft,
\* creates no post and no subscription and enqueues no notification;
\* afterwards a publish confirmation is accepted only once a conversation
\* has reached confirming again, through the price step.
C35_CancelClearsAndCreatesNothing ==
    [][\A u \in Users :
          /\ (fsm[u] \in CreatePostStates /\ fsm'[u] = "none" /\ run' = run) =>
                /\ draft'[u] = NoDraft
                /\ posts' = posts
                /\ nextId' = nextId
                /\ subs' = subs
                /\ queue' = queue
                /\ fwd' = fwd
                /\ rev' = rev
          /\ (\E p \in PostIds :
                  run[p].pc = "idle" /\ run'[p].pc # "idle" /\ run'[p].user = u) =>
                fsm[u] = "confirming"
          /\ (fsm[u] # "confirming" /\ fsm'[u] = "confirming") =>
                fsm[u] = "entering_price"]_vars

\* The conversation was cancelled at the confirmation step: the preview had
\* been shown, the state and the draft are cleared and no post id was taken.
C35_CancelledAtConfirmation ==
    \E u \in Users :
        /\ reply[u] = "confirm"
        /\ fsm[u] = "none"
        /\ draft[u] = NoDraft
        /\ nextId = MaxPosts
        /\ posts = [p \in PostIds |-> NoPost]

\* C36: when start_create_post ends by reporting a storage error, an
\* unregistered user or an existing active post, the conversation state and
\* the stored draft are as before the callback and no post is created or
\* modified.
C36_RejectedStartChangesNothing ==
    [][\A u \in Users :
          (reply'[u] # reply[u] /\
           reply'[u] \in {"db_error", "not_registered", "already_active"}) =>
              /\ fsm' = fsm
              /\ draft' = draft
              /\ posts' = posts
              /\ nextId' = nextId]_vars

\* The callback was answered with the storage error while a draft waited at
\* the confirmation step: the conversation is still there.
C36_ErrorReportedDuringConfirmation ==
    \E u \in Users :
        /\ reply[u] = "db_error"
        /\ fsm[u] = "confirming"
        /\ draft[u] # NoDraft

\* C37: the /start command and the main_menu callback reset the conversation
\* from every state: after either one the creation conversation is not at
\* one of its steps with the earlier draft (the state is cleared and, with
\* it, the draft; /start create_post may open a new conversation with a
\* fresh draft), so the draft that was in progress is not published by a
\* later confirmation: outside the conversation no draft is stored, and a
\* publish confirmation is accepted in confirming only.
C37_ResetDropsDraft ==
    [][\A u \in Users :
          /\ \/ /\ fsm'[u] \in {"none", "waiting_agreement", "entering_from"}
                /\ draft'[u] = IF fsm'[u] = "entering_from"
                               THEN [NoDraft EXCEPT !.user_id = u, !.role = RoleOf(u)]
                               ELSE NoDraft
             \/ ~(CmdStart(u) \/ CallbackMainMenu(u))
          /\ fsm'[u] \notin CreatePostStates => draft'[u] = NoDraft
          /\ \A p \in PostIds :
                (run[p].pc = "idle" /\ run'[p].pc # "idle" /\ run'[p].user = u) =>
                    (fsm[u] = "confirming" /\ draft[u] # NoDraft)]_vars

\* The main menu was opened from the confirmation step, where a publish of
\* the draft had failed after its commit: the state and the draft are gone.
C37_ResetAtConfirmation ==
    \E p \in PostIds :
        /\ run[p].pc = "failed"
        /\ run[p].failedIn = "matching"
        /\ fsm[run[p].user] = "none"
        /\ draft[run[p].user] = NoDraft
        /\ reply[run[p].user] = "menu_edited"

====
